---- MODULE Spec2Model ----
(***************************************************************************)
(* Model of fab-scrapper (src/main.rs): read_set_codes, fetch_set_json_data,*)
(* save_data_to_file and main.                                             *)
(*                                                                         *)
(* Text is a sequence of strings.  A string of one character is a          *)
(* character of a file; a longer string is a literal of a format string,   *)
(* kept as one token.  Concatenation of text is \o.                        *)
(***************************************************************************)
EXTENDS Integers, Sequences, FiniteSets, TLC

VARIABLES
    input_state,   \* the input file on disk: "missing", "unreadable", "ok"
    content,       \* the characters of the input file
    loaded,        \* the value read_set_codes returned, or NotLoaded
    pc,            \* main's position
    set_codes,     \* main's set_codes
    idx,           \* index in set_codes of the iteration of the for loop
    json_content,  \* the body of the current iteration's fetch
    txt_success,   \* main's txt_success
    json_success,  \* main's json_success
    all_sets_data, \* main's HashMap, a function from codes to bodies
    combined_json, \* main's combined_json
    metadata_content, \* main's metadata_content
    launch_time,   \* main's script_launch_time, formatted
    dirs,          \* the directories that exist
    files,         \* the files that exist, a function from paths to contents
    log,           \* what the process has done to the outside, in order
    exit           \* main's return value: "none", "Ok", "Err"

vars == <<input_state, content, loaded, pc, set_codes, idx, json_content,
          txt_success, json_success, all_sets_data, combined_json,
          metadata_content, launch_time, dirs, files, log, exit>>

(***************************************************************************)
(* Bounds                                                                  *)
(***************************************************************************)
MaxFileLen == 4   \* characters of an input file given to read_set_codes alone
MaxLines == 2     \* lines of the input file of a run of main

(***************************************************************************)
(* Characters                                                              *)
(***************************************************************************)
NL == "\n"
CR == "\r"
BAD == "<FF>"                  \* a byte that is not valid UTF-8
Whitespace == {" ", CR, NL}    \* what str::trim removes
Letters == {"W", "A"}
Chars == Letters \cup {" ", CR, NL, BAD}

Last(s) == s[Len(s)]

RECURSIVE Concat(_)
Concat(ss) == IF ss = <<>> THEN <<>> ELSE Head(ss) \o Concat(Tail(ss))

RECURSIVE SeqsUpTo(_, _)
SeqsUpTo(S, n) ==
    IF n = 0 THEN {<<>>}
    ELSE LET shorter == SeqsUpTo(S, n - 1)
         IN  shorter \cup {Append(s, x) : s \in {t \in shorter : Len(t) = n - 1}, x \in S}

(***************************************************************************)
(* str::trim and BufRead::lines, as read_set_codes uses them               *)
(***************************************************************************)
RECURSIVE TrimStart(_)
TrimStart(s) ==
    IF s # <<>> /\ Head(s) \in Whitespace THEN TrimStart(Tail(s)) ELSE s

RECURSIVE TrimEnd(_)
TrimEnd(s) ==
    IF s # <<>> /\ Last(s) \in Whitespace THEN TrimEnd(SubSeq(s, 1, Len(s) - 1)) ELSE s

trim(s) == TrimEnd(TrimStart(s))

\* One read_line: the characters up to and including the first NL.
RECURSIVE ReadLineLen(_)
ReadLineLen(s) ==
    IF s = <<>> THEN 0
    ELSE IF Head(s) = NL THEN 1
    ELSE 1 + ReadLineLen(Tail(s))

\* Lines::next on what read_line gave: drop a final NL, then a final CR.
StripEol(buf) ==
    IF buf # <<>> /\ Last(buf) = NL
    THEN LET b == SubSeq(buf, 1, Len(buf) - 1)
         IN  IF b # <<>> /\ Last(b) = CR THEN SubSeq(b, 1, Len(b) - 1) ELSE b
    ELSE buf

\* reader.lines(): each item is [ok, line]; a line that is not UTF-8 is an error.
RECURSIVE lines(_)
lines(s) ==
    IF s = <<>> THEN <<>>
    ELSE LET n   == ReadLineLen(s)
             buf == SubSeq(s, 1, n)
             item == IF \E i \in 1..n : buf[i] = BAD
                     THEN [ok |-> FALSE, line |-> <<>>]
                     ELSE [ok |-> TRUE, line |-> StripEol(buf)]
         IN  <<item>> \o lines(SubSeq(s, n + 1, Len(s)))

(***************************************************************************)
(* read_set_codes                                                          *)
(***************************************************************************)
NotLoaded == [ok |-> FALSE, err |-> "not called", codes |-> <<>>]
LoadErr(e) == [ok |-> FALSE, err |-> e, codes |-> <<>>]
LoadOk(codes) == [ok |-> TRUE, err |-> "", codes |-> codes]

PushAlways(codes, line_content) == Append(codes, line_content)

\* The body of the for loop: push the trimmed line unless it is empty.
PushCode(codes, line_content) ==
    IF line_content # <<>> THEN Append(codes, line_content) ELSE codes

\* The for loop over reader.lines(): the first line error ends the load.
RECURSIVE ReadLoop(_, _)
ReadLoop(items, codes) ==
    IF items = <<>> THEN LoadOk(codes)
    ELSE IF ~Head(items).ok THEN LoadErr("read")
    ELSE ReadLoop(Tail(items), PushCode(codes, trim(Head(items).line)))

ReadMissingAsEmpty(state, text) ==
    IF state # "ok" THEN LoadOk(<<>>) ELSE ReadLoop(lines(text), <<>>)

read_set_codes(state, text) ==
    IF state = "missing" THEN LoadErr("not found")
    ELSE IF state = "unreadable" THEN LoadErr("open")
    ELSE ReadLoop(lines(text), <<>>)

(***************************************************************************)
(* Constants of main.rs                                                    *)
(***************************************************************************)
BASE_API_URL == <<"https://cards.fabtcg.com/api/search/v1/cards/?set_code=">>
base_output_dir == <<"script_generated_card_data">>
txt_output_dir == base_output_dir \o <<"/txt">>
json_output_dir == base_output_dir \o <<"/json">>
AllDirs == {base_output_dir, txt_output_dir, json_output_dir}

txt_filename(set_code) == txt_output_dir \o <<"/">> \o trim(set_code) \o <<"_cards.txt">>
json_filename(set_code) == json_output_dir \o <<"/">> \o trim(set_code) \o <<"_cards.json">>
combined_txt_filename == txt_output_dir \o <<"/all_sets_combined.txt">>
combined_json_filename == json_output_dir \o <<"/all_sets_combined.json">>
metadata_filename == base_output_dir \o <<"/script_metadata.txt">>

(***************************************************************************)
(* fetch_set_json_data                                                     *)
(***************************************************************************)
\* What the server and the network answer to one GET.
Bodies == {<<"{\"a\":1}">>, <<"<html>">>}
Responses ==
    {[sent |-> FALSE, status |-> 0, text_ok |-> FALSE, body |-> <<>>],
     [sent |-> TRUE, status |-> 404, text_ok |-> TRUE, body |-> <<"Not Found">>],
     [sent |-> TRUE, status |-> 200, text_ok |-> FALSE, body |-> <<>>]}
    \cup {[sent |-> TRUE, status |-> 200, text_ok |-> TRUE, body |-> b] : b \in Bodies}

is_success(status) == status \in 200..299

FetchUrl(set_code) == BASE_API_URL \o trim(set_code)

fetch_set_json_data(set_code, resp) ==
    IF ~resp.sent THEN [ok |-> FALSE, body |-> <<>>]
    ELSE IF ~is_success(resp.status) THEN [ok |-> FALSE, body |-> <<>>]
    ELSE IF ~resp.text_ok THEN [ok |-> FALSE, body |-> <<>>]
    ELSE [ok |-> TRUE, body |-> resp.body]

(***************************************************************************)
(* save_data_to_file                                                       *)
(*                                                                         *)
(* What is known of a file is [text, complete, before].  complete: the     *)
(* last save of the file succeeded and the file holds text.  Not complete: *)
(* the last save failed, and either File::create failed and the file is as *)
(* it was (before holds what was known of it then, and is empty if there   *)
(* was no file), or write_all failed and the file holds a proper prefix of *)
(* text.  Which of the two, and which prefix, the process cannot tell.     *)
(***************************************************************************)
Saved(data) == [text |-> data, complete |-> TRUE, before |-> <<>>]
NotSaved(fs, filename, data) ==
    [text |-> data, complete |-> FALSE,
     before |-> IF filename \in DOMAIN fs THEN <<fs[filename]>> ELSE <<>>]

WriteFile(fs, filename, file) ==
    [p \in DOMAIN fs \cup {filename} |-> IF p = filename THEN file ELSE fs[p]]

\* File::create replaced by an open for appending.
save_data_appending(fs, filename, data) ==
    LET old == IF filename \in DOMAIN fs THEN fs[filename].text ELSE <<>>
    IN  {[ok |-> FALSE, fs |-> WriteFile(fs, filename, NotSaved(fs, filename, old \o data))],
         [ok |-> TRUE, fs |-> WriteFile(fs, filename, Saved(old \o data))]}

\* The outcomes of one call: Err, from File::create or from write_all, or Ok.
save_data_to_file(fs, filename, data) ==
    {[ok |-> FALSE, fs |-> WriteFile(fs, filename, NotSaved(fs, filename, data))],
     [ok |-> TRUE, fs |-> WriteFile(fs, filename, Saved(data))]}

(***************************************************************************)
(* The log of what the process did to the outside                          *)
(***************************************************************************)
GetEvent(url, r) == [op |-> "GET", arg |-> url, ok |-> r.ok, body |-> r.body]
WriteEvent(filename, data, ok) == [op |-> "WRITE", arg |-> filename, ok |-> ok, body |-> data]
SleepEvent == [op |-> "SLEEP", arg |-> <<"500ms">>, ok |-> TRUE, body |-> <<>>]

(***************************************************************************)
(* The aggregator and the metadata report of main                          *)
(***************************************************************************)
EmptyMap == [c \in {} |-> <<>>]

InsertInto(map, key, value) ==
    [c \in DOMAIN map \cup {key} |-> IF c = key THEN value ELSE map[c]]

InsertIfAbsent(map, key, value) ==
    IF key \in DOMAIN map THEN map ELSE InsertInto(map, key, value)

\* HashMap::insert: the value of an existing key is replaced.
HashMapInsert(map, key, value) == InsertInto(map, key, value)

StoreIfBothSaved(map, set_code, body, txt_ok, json_ok) ==
    IF txt_ok /\ json_ok THEN HashMapInsert(map, trim(set_code), body) ELSE map

\* Lines 165-167: the data is stored if at least one save was successful.
StoreIfSaved(map, set_code, body, txt_ok, json_ok) ==
    IF txt_ok \/ json_ok THEN HashMapInsert(map, trim(set_code), body) ELSE map

\* The orders in which a HashMap may be iterated.
IterationOrders(map) ==
    {o \in [1..Cardinality(DOMAIN map) -> DOMAIN map] :
        \A i, j \in DOMAIN o : o[i] = o[j] => i = j}

CombinedEntry(set_code, json_data) == <<"  \"">> \o set_code \o <<"\": ">> \o json_data

RECURSIVE CombinedEntries(_, _, _)
CombinedEntries(map, order, i) ==
    IF i > Len(order) THEN <<>>
    ELSE (IF i > 1 THEN <<",\n">> ELSE <<>>)
         \o CombinedEntry(order[i], map[order[i]])
         \o CombinedEntries(map, order, i + 1)

BuildCombinedFirstOnly(map, order) ==
    <<"{\n">> \o CombinedEntry(order[1], map[order[1]]) \o <<"\n}">>

\* Lines 189-198, for the order the HashMap is iterated in.
BuildCombined(map, order) == <<"{\n">> \o CombinedEntries(map, order, 1) \o <<"\n}">>

\* Display of an unsigned number, in decimal.
Digits == <<"0", "1", "2", "3", "4", "5", "6", "7", "8", "9">>
RECURSIVE FormatNumber(_)
FormatNumber(n) ==
    IF n < 10 THEN <<Digits[n + 1]>>
    ELSE FormatNumber(n \div 10) \o <<Digits[(n % 10) + 1]>>

\* [String]::join
RECURSIVE join(_, _)
join(strs, sep) ==
    IF strs = <<>> THEN <<>>
    ELSE IF Len(strs) = 1 THEN strs[1]
    ELSE strs[1] \o sep \o join(Tail(strs), sep)

UNKNOWN == <<"UNKNOWN">>
LatestSet(codes) == IF codes = <<>> THEN UNKNOWN ELSE Last(codes)

TotalIsInputLength(codes, map) == Len(codes)

\* Line 231: all_sets_data.len()
TotalSets(codes, map) == Cardinality(DOMAIN map)

ListOfStored(codes, map) == SelectSeq(codes, LAMBDA c : c \in DOMAIN map)

\* Line 232: the list given to join
SetsListed(codes, map) == codes

\* Lines 219-235
MetadataContent(time, codes, map) ==
    <<"FAB Card Scrapper - Script Execution Metadata", NL,
      "=============================================", NL,
      "Script Launch Time: ", time, NL,
      "Latest Set Processed: ">> \o LatestSet(codes) \o <<NL,
      "Total Sets Processed: ">> \o FormatNumber(TotalSets(codes, map)) \o <<NL,
      "Sets List: ">> \o join(SetsListed(codes, map), <<", ">>) \o <<NL,
      "Output Structure:", NL,
      "- TXT files: ">> \o txt_output_dir \o <<"/", NL,
      "- JSON files: ">> \o json_output_dir \o <<"/", NL>>

(***************************************************************************)
(* The states main starts in                                               *)
(***************************************************************************)
\* The lines an input file of a run of main is made of.
MainLines == {<<"W">>, <<" ", "A", CR>>, <<>>, <<BAD>>}
MainFiles ==
    {Concat([i \in 1..Len(ls) |-> ls[i] \o <<NL>>]) : ls \in SeqsUpTo(MainLines, MaxLines)}

\* The output directories left by earlier runs.
DirStates == {ds \in SUBSET AllDirs : ds # {} => base_output_dir \in ds}
LaunchTimes == {"2025-01-01 00:00:00 +00:00"}

InitMain(texts) ==
    /\ input_state \in {"missing", "unreadable", "ok"}
    /\ content \in texts
    /\ loaded = NotLoaded
    /\ pc = "read"
    /\ set_codes = <<>>
    /\ idx = 0
    /\ json_content = <<>>
    /\ txt_success = FALSE
    /\ json_success = FALSE
    /\ all_sets_data = EmptyMap
    /\ combined_json = <<>>
    /\ metadata_content = <<>>
    /\ launch_time \in LaunchTimes
    /\ dirs \in DirStates
    /\ files = EmptyMap
    /\ log = <<>>
    /\ exit = "none"

Init == InitMain(MainFiles)

(***************************************************************************)
(* main, step by step                                                      *)
(***************************************************************************)
Return(value) == pc' = "done" /\ exit' = value

\* Lines 97-105: read_set_codes fails and main returns its error.
ReadFails ==
    /\ pc = "read"
    /\ loaded' = read_set_codes(input_state, content)
    /\ ~loaded'.ok
    /\ Return("Err")
    /\ UNCHANGED <<input_state, content, set_codes, idx, json_content, txt_success,
                   json_success, all_sets_data, combined_json, metadata_content,
                   launch_time, dirs, files, log>>

\* Lines 97-110: no code in the file.
ReadEmpty ==
    /\ pc = "read"
    /\ loaded' = read_set_codes(input_state, content)
    /\ loaded'.ok /\ loaded'.codes = <<>>
    /\ Return("Ok")
    /\ UNCHANGED <<input_state, content, set_codes, idx, json_content, txt_success,
                   json_success, all_sets_data, combined_json, metadata_content,
                   launch_time, dirs, files, log>>

\* Lines 97-112
ReadCodes ==
    /\ pc = "read"
    /\ loaded' = read_set_codes(input_state, content)
    /\ loaded'.ok /\ loaded'.codes # <<>>
    /\ set_codes' = loaded'.codes
    /\ pc' = "mkdir"
    /\ UNCHANGED <<input_state, content, idx, json_content, txt_success,
                   json_success, all_sets_data, combined_json, metadata_content,
                   launch_time, dirs, files, log, exit>>

\* The first of the three directories main has yet to look at, in the order of
\* lines 119, 123, 127: one that does not exist.
DirsInOrder == <<base_output_dir, txt_output_dir, json_output_dir>>
MissingDirs == {i \in 1..3 : DirsInOrder[i] \notin dirs}
NextMissingDir == DirsInOrder[CHOOSE i \in MissingDirs : \A j \in MissingDirs : i <= j]

\* fs::create_dir(..)? succeeds.
CreateDir ==
    /\ pc = "mkdir"
    /\ MissingDirs # {}
    /\ dirs' = dirs \cup {NextMissingDir}
    /\ UNCHANGED <<input_state, content, loaded, pc, set_codes, idx, json_content,
                   txt_success, json_success, all_sets_data, combined_json,
                   metadata_content, launch_time, files, log, exit>>

\* fs::create_dir(..)? fails and main returns the error.
CreateDirFails ==
    /\ pc = "mkdir"
    /\ MissingDirs # {}
    /\ Return("Err")
    /\ UNCHANGED <<input_state, content, loaded, set_codes, idx, json_content,
                   txt_success, json_success, all_sets_data, combined_json,
                   metadata_content, launch_time, dirs, files, log>>

\* Lines 133-136: the three directories exist; the loop starts.
EnterLoop ==
    /\ pc = "mkdir"
    /\ MissingDirs = {}
    /\ all_sets_data' = EmptyMap
    /\ idx' = 1
    /\ pc' = "fetch"
    /\ UNCHANGED <<input_state, content, loaded, set_codes, json_content,
                   txt_success, json_success, combined_json,
                   metadata_content, launch_time, dirs, files, log, exit>>

set_code == set_codes[idx]

AfterFailedFetchBreaks == "combine"

\* Lines 169-180: the Err arm logs and falls through to the delay.
AfterFailedFetch == "sleep"

\* Lines 138 and 169-175: fetch_set_json_data(set_code) is an Err.
FetchFails ==
    /\ pc = "fetch"
    /\ \E resp \in Responses :
         LET r == fetch_set_json_data(set_code, resp)
         IN  /\ ~r.ok
             /\ log' = Append(log, GetEvent(FetchUrl(set_code), r))
    /\ pc' = AfterFailedFetch
    /\ UNCHANGED <<input_state, content, loaded, set_codes, idx, json_content,
                   txt_success, json_success, all_sets_data, combined_json,
                   metadata_content, launch_time, dirs, files, exit>>

\* Lines 138-144: fetch_set_json_data(set_code) is Ok(json_content).
FetchOk ==
    /\ pc = "fetch"
    /\ \E resp \in Responses :
         LET r == fetch_set_json_data(set_code, resp)
         IN  /\ r.ok
             /\ json_content' = r.body
             /\ log' = Append(log, GetEvent(FetchUrl(set_code), r))
    /\ pc' = "save_txt"
    /\ UNCHANGED <<input_state, content, loaded, set_codes, idx,
                   txt_success, json_success, all_sets_data, combined_json,
                   metadata_content, launch_time, dirs, files, exit>>

\* Lines 146-153
SaveTxt ==
    /\ pc = "save_txt"
    /\ \E out \in save_data_to_file(files, txt_filename(set_code), json_content) :
         /\ files' = out.fs
         /\ txt_success' = out.ok
         /\ log' = Append(log, WriteEvent(txt_filename(set_code), json_content, out.ok))
    /\ pc' = "save_json"
    /\ UNCHANGED <<input_state, content, loaded, set_codes, idx, json_content,
                   json_success, all_sets_data, combined_json,
                   metadata_content, launch_time, dirs, exit>>

\* Lines 155-168: the json version is saved, then the data is stored.
SaveJson ==
    /\ pc = "save_json"
    /\ \E out \in save_data_to_file(files, json_filename(set_code), json_content) :
         /\ files' = out.fs
         /\ json_success' = out.ok
         /\ log' = Append(log, WriteEvent(json_filename(set_code), json_content, out.ok))
         /\ all_sets_data' =
              StoreIfSaved(all_sets_data, set_code, json_content, txt_success, out.ok)
    /\ pc' = "sleep"
    /\ UNCHANGED <<input_state, content, loaded, set_codes, idx, json_content,
                   txt_success, combined_json,
                   metadata_content, launch_time, dirs, exit>>

\* Lines 179-180: the delay, then the next code or the end of the loop.
Sleep ==
    /\ pc = "sleep"
    /\ log' = Append(log, SleepEvent)
    /\ IF idx < Len(set_codes)
       THEN idx' = idx + 1 /\ pc' = "fetch"
       ELSE idx' = idx /\ pc' = "combine"
    /\ UNCHANGED <<input_state, content, loaded, set_codes, json_content,
                   txt_success, json_success, all_sets_data, combined_json,
                   metadata_content, launch_time, dirs, files, exit>>

\* Lines 183-198
Combine ==
    /\ pc = "combine"
    /\ all_sets_data # EmptyMap
    /\ \E order \in IterationOrders(all_sets_data) :
         combined_json' = BuildCombined(all_sets_data, order)
    /\ pc' = "save_combined_txt"
    /\ UNCHANGED <<input_state, content, loaded, set_codes, idx, json_content,
                   txt_success, json_success, all_sets_data,
                   metadata_content, launch_time, dirs, files, log, exit>>

\* Line 183: nothing was stored.
SkipCombine ==
    /\ pc = "combine"
    /\ all_sets_data = EmptyMap
    /\ pc' = "metadata"
    /\ UNCHANGED <<input_state, content, loaded, set_codes, idx, json_content,
                   txt_success, json_success, all_sets_data, combined_json,
                   metadata_content, launch_time, dirs, files, log, exit>>

\* Lines 200-205
SaveCombinedTxt ==
    /\ pc = "save_combined_txt"
    /\ \E out \in save_data_to_file(files, combined_txt_filename, combined_json) :
         /\ files' = out.fs
         /\ log' = Append(log, WriteEvent(combined_txt_filename, combined_json, out.ok))
    /\ pc' = "save_combined_json"
    /\ UNCHANGED <<input_state, content, loaded, set_codes, idx, json_content,
                   txt_success, json_success, all_sets_data, combined_json,
                   metadata_content, launch_time, dirs, exit>>

\* Lines 207-213
SaveCombinedJson ==
    /\ pc = "save_combined_json"
    /\ \E out \in save_data_to_file(files, combined_json_filename, combined_json) :
         /\ files' = out.fs
         /\ log' = Append(log, WriteEvent(combined_json_filename, combined_json, out.ok))
    /\ pc' = "metadata"
    /\ UNCHANGED <<input_state, content, loaded, set_codes, idx, json_content,
                   txt_success, json_success, all_sets_data, combined_json,
                   metadata_content, launch_time, dirs, exit>>

MetadataErrorReturned(saved) == IF saved THEN "Ok" ELSE "Err"

\* Lines 237-247: a metadata file that is not saved is a warning; main returns Ok(()).
MetadataReturn(saved) == "Ok"

\* Lines 215-247
SaveMetadata ==
    /\ pc = "metadata"
    /\ metadata_content' = MetadataContent(launch_time, set_codes, all_sets_data)
    /\ \E out \in save_data_to_file(files, metadata_filename, metadata_content') :
         /\ files' = out.fs
         /\ log' = Append(log, WriteEvent(metadata_filename, metadata_content', out.ok))
         /\ Return(MetadataReturn(out.ok))
    /\ UNCHANGED <<input_state, content, loaded, set_codes, idx, json_content,
                   txt_success, json_success, all_sets_data, combined_json,
                   launch_time, dirs>>

Next ==
    \/ ReadFails
    \/ ReadEmpty
    \/ ReadCodes
    \/ CreateDir
    \/ CreateDirFails
    \/ EnterLoop
    \/ FetchFails
    \/ FetchOk
    \/ SaveTxt
    \/ SaveJson
    \/ Sleep
    \/ Combine
    \/ SkipCombine
    \/ SaveCombinedTxt
    \/ SaveCombinedJson
    \/ SaveMetadata

Spec == Init /\ [][Next]_vars

(***************************************************************************)
(* read_set_codes on its own, over every file of at most MaxFileLen        *)
(* characters                                                              *)
(***************************************************************************)
InitLoader == InitMain(SeqsUpTo(Chars, MaxFileLen))

ReadSetCodes ==
    /\ pc = "read"
    /\ loaded' = read_set_codes(input_state, content)
    /\ pc' = "done"
    /\ UNCHANGED <<input_state, content, set_codes, idx, json_content, txt_success,
                   json_success, all_sets_data, combined_json, metadata_content,
                   launch_time, dirs, files, log, exit>>

NextLoader == ReadSetCodes

SpecLoader == InitLoader /\ [][NextLoader]_vars

(***************************************************************************)
(* Reading the log, the files and the texts                                *)
(***************************************************************************)
Range(f) == {f[x] : x \in DOMAIN f}

\* The for loop has ended: every code listed has had its delay.
LoopFinished ==
    /\ set_codes # <<>>
    /\ Cardinality({i \in DOMAIN log : log[i].op = "SLEEP"}) = Len(set_codes)

\* The input file cannot be read as text: it is missing, cannot be opened, or
\* holds a byte that is not UTF-8.
InputUnreadable == input_state # "ok" \/ BAD \in Range(content)

GetPositions == {i \in DOMAIN log : log[i].op = "GET"}
SleepPositions == {i \in DOMAIN log : log[i].op = "SLEEP"}
WritePositions == {i \in DOMAIN log : log[i].op = "WRITE"}
PerSetFiles(c) == {txt_filename(c), json_filename(c)}

\* The writes of the per-set files of c in the iteration whose GET is log[i]:
\* those after log[i] with no other GET in between.
IterationWrites(i, c) ==
    {j \in (i + 1)..Len(log) :
        /\ log[j].op = "WRITE"
        /\ log[j].arg \in PerSetFiles(c)
        /\ \A k \in (i + 1)..(j - 1) : log[k].op # "GET"}

\* The iteration whose GET is log[i] is one for c that fetched a body and saved
\* it to at least one of the two files.
SavedIteration(i, c) ==
    /\ log[i].arg = FetchUrl(c)
    /\ log[i].ok
    /\ \E j \in IterationWrites(i, c) : log[j].ok

FetchedSomewhere(c) == \E i \in GetPositions : log[i].arg = FetchUrl(c) /\ log[i].ok
SavedSomewhere(c) == \E i \in GetPositions : SavedIteration(i, c)

Appears(word, text) ==
    \E i \in 1..(Len(text) - Len(word) + 1) : SubSeq(text, i, i + Len(word) - 1) = word

Occurrences(word, text) ==
    Cardinality({i \in 1..(Len(text) - Len(word) + 1) : SubSeq(text, i, i + Len(word) - 1) = word})

\* The file may hold the word: a text it may hold, whole or in part, has it.
RECURSIVE MayHold(_, _)
MayHold(file, word) ==
    \/ Appears(word, file.text)
    \/ ~file.complete /\ file.before # <<>> /\ MayHold(file.before[1], word)
MayAppearInFile(word, filename) ==
    filename \in DOMAIN files /\ MayHold(files[filename], word)
AppearsInFile(word, filename) ==
    filename \in DOMAIN files /\ files[filename].complete /\ Appears(word, files[filename].text)

\* What follows a label on its line of a text.
Field(text, label) ==
    LET i == CHOOSE k \in DOMAIN text : text[k] = label
        j == CHOOSE k \in (i + 1)..Len(text) :
                 text[k] = NL /\ \A m \in (i + 1)..(k - 1) : text[m] # NL
    IN  SubSeq(text, i + 1, j - 1)

DigitValue(d) == (CHOOSE k \in DOMAIN Digits : Digits[k] = d) - 1
RECURSIVE ParseNumber(_)
ParseNumber(text) ==
    IF Len(text) = 1 THEN DigitValue(text[1])
    ELSE 10 * ParseNumber(SubSeq(text, 1, Len(text) - 1)) + DigitValue(Last(text))

(***************************************************************************)
(* C1: the process exits with an error only when the input file is missing *)
(* or unreadable; every other run, a failed creation of the output         *)
(* directories included, returns success.                                  *)
(***************************************************************************)
C1_ErrorOnlyForInput == pc = "done" => (exit = "Err" <=> InputUnreadable)

\* C1, amended: the process exits with an error only when the input file is
\* missing or unreadable or when an output directory that does not exist cannot
\* be created; every other run, whatever fetch or write fails, returns success.
C1_ErrorForInputOrCreateDir ==
    pc = "done" =>
        /\ exit \in {"Ok", "Err"}
        /\ exit = "Err" <=>
             \/ InputUnreadable
             \/ set_codes # <<>> /\ ~(AllDirs \subseteq dirs)

C1_Witness ==
    /\ pc = "done" /\ exit = "Ok"
    /\ \E i \in GetPositions : ~log[i].ok
    /\ \E i \in WritePositions : ~log[i].ok /\ log[i].arg = metadata_filename
    /\ \E i \in WritePositions : ~log[i].ok /\ log[i].arg = combined_txt_filename

(***************************************************************************)
(* C2: when the input file is missing, read_set_codes fails and the        *)
(* process ends with an error, with no HTTP request made and no output     *)
(* directory or file created.                                              *)
(***************************************************************************)
C2_MissingInputStopsFirst ==
    [][input_state = "missing" =>
         /\ ~loaded'.ok
         /\ pc' = "done" /\ exit' = "Err"
         /\ log' = <<>>
         /\ dirs' = dirs
         /\ files' = EmptyMap]_vars

C2_Witness ==
    input_state = "missing" /\ pc = "done" /\ exit = "Err" /\ loaded = LoadErr("not found")

(***************************************************************************)
(* C3: at the end of the fetch loop a code is a key of the result mapping  *)
(* exactly when some iteration for it fetched a body and saved it to the    *)
(* txt file or to the json file; one of the two is enough.                 *)
(***************************************************************************)
C3_StoredIffSaved ==
    pc = "combine" =>
        \A c \in Range(set_codes) \cup DOMAIN all_sets_data :
            c \in DOMAIN all_sets_data <=> SavedSomewhere(c)

C3_Witness ==
    /\ pc = "combine"
    /\ \E c \in DOMAIN all_sets_data : \E i \in GetPositions :
         /\ SavedIteration(i, c)
         /\ \E j \in IterationWrites(i, c) : ~log[j].ok
    /\ \E c \in Range(set_codes) \ DOMAIN all_sets_data : \E i \in GetPositions :
         /\ log[i].arg = FetchUrl(c) /\ log[i].ok
         /\ \A j \in IterationWrites(i, c) : ~log[j].ok

(***************************************************************************)
(* C4: a set whose fetch fails contributes nothing to any output: no       *)
(* per-set file is written for it, it is not in the result mapping, and it *)
(* appears in neither the combined files nor the metadata file.            *)
(***************************************************************************)
NeverFetched == {c \in Range(set_codes) : ~FetchedSomewhere(c)}

C4_FailedFetchInNoOutput ==
    \A c \in NeverFetched :
        /\ \A i \in WritePositions : log[i].arg \notin PerSetFiles(c)
        /\ c \notin DOMAIN all_sets_data
        /\ ~MayAppearInFile(c, combined_txt_filename)
        /\ ~MayAppearInFile(c, combined_json_filename)
        /\ ~AppearsInFile(c, metadata_filename)

\* C4, amended: an iteration whose fetch fails writes no file and leaves the
\* result mapping as it was, so a code none of whose fetches succeeded has no
\* per-set file written, is no key of the mapping and is in no combined file;
\* the metadata file that is written still names it in its Sets List, which is
\* the whole input list.
C4_FailedFetchOnlyInSetsList ==
    /\ \A i \in GetPositions : ~log[i].ok /\ i < Len(log) => log[i + 1].op = "SLEEP"
    /\ \A c \in NeverFetched :
        /\ \A i \in WritePositions : log[i].arg \notin PerSetFiles(c)
        /\ PerSetFiles(c) \cap DOMAIN files = {}
        /\ c \notin DOMAIN all_sets_data
        /\ ~Appears(c, combined_json)
        /\ ~MayAppearInFile(c, combined_txt_filename)
        /\ ~MayAppearInFile(c, combined_json_filename)
        /\ metadata_content # <<>> =>
             Appears(c, Field(metadata_content, "Sets List: "))
        /\ metadata_filename \in DOMAIN files /\ files[metadata_filename].complete =>
             Appears(c, Field(files[metadata_filename].text, "Sets List: "))

C4_Witness ==
    /\ pc = "done"
    /\ NeverFetched # {}
    /\ all_sets_data # EmptyMap
    /\ \A f \in {combined_txt_filename, combined_json_filename, metadata_filename} :
         f \in DOMAIN files /\ files[f].complete

(***************************************************************************)
(* C5: the Total Sets Processed of the metadata file is the size of the    *)
(* result mapping at the end of the loop, the number of distinct codes     *)
(* fetched and saved at least once, which is neither the length of the     *)
(* input list nor the number of iterations that succeeded.                 *)
(***************************************************************************)
C5_TotalIsMappingSize ==
    metadata_content # <<>> =>
        LET total == ParseNumber(Field(metadata_content, "Total Sets Processed: "))
        IN  /\ total = Cardinality(DOMAIN all_sets_data)
            /\ total = Cardinality({c \in Range(set_codes) : SavedSomewhere(c)})
            /\ metadata_filename \in DOMAIN files /\ files[metadata_filename].complete =>
                 files[metadata_filename].text = metadata_content

C5_Witness ==
    /\ metadata_content # <<>>
    /\ metadata_filename \in DOMAIN files /\ files[metadata_filename].complete
    /\ Cardinality(DOMAIN all_sets_data) # Len(set_codes)
    /\ Cardinality(DOMAIN all_sets_data) #
         Cardinality({i \in GetPositions : \E c \in Range(set_codes) : SavedIteration(i, c)})

(***************************************************************************)
(* C6: read_set_codes returns the trimmed non-blank lines of the file, in  *)
(* file order, duplicates kept: as many codes as there are non-blank       *)
(* lines, none empty, none with whitespace at either end.                  *)
(***************************************************************************)
\* The characters of the file that are not whitespace, by position.
Ink == {i \in DOMAIN content : content[i] \notin Whitespace}
SameLine(i, j) == \A k \in i..j : content[k] # NL
FirstInk == {i \in Ink : \A j \in Ink : j < i => ~SameLine(j, i)}
LastInk == {i \in Ink : \A j \in Ink : j > i => ~SameLine(i, j)}
Nth(S, n) == CHOOSE i \in S : Cardinality({j \in S : j < i}) = n - 1
NonBlankLines ==
    [n \in 1..Cardinality(FirstInk) |-> SubSeq(content, Nth(FirstInk, n), Nth(LastInk, n))]

C6_CodesAreTrimmedNonBlankLines ==
    pc = "done" =>
        IF InputUnreadable THEN ~loaded.ok
        ELSE /\ loaded.ok
             /\ loaded.codes = NonBlankLines
             /\ \A n \in DOMAIN loaded.codes :
                  /\ loaded.codes[n] # <<>>
                  /\ Head(loaded.codes[n]) \notin Whitespace
                  /\ Last(loaded.codes[n]) \notin Whitespace

C6_Witness ==
    /\ pc = "done" /\ loaded.ok
    /\ Len(loaded.codes) = 2
    /\ loaded.codes[1] = loaded.codes[2]
    /\ " " \in Range(content)

(***************************************************************************)
(* C7: after an iteration whose fetch gave the body B, the txt file of the *)
(* code holds exactly B if its write succeeded, and so does the json file. *)
(***************************************************************************)
LastGet == log[CHOOSE i \in GetPositions : \A j \in GetPositions : j <= i]

C7_SavedFileIsBody ==
    pc = "sleep" /\ LastGet.ok =>
        /\ txt_success =>
             /\ txt_filename(set_code) \in DOMAIN files
             /\ files[txt_filename(set_code)] = Saved(LastGet.body)
        /\ json_success =>
             /\ json_filename(set_code) \in DOMAIN files
             /\ files[json_filename(set_code)] = Saved(LastGet.body)

C7_Witness ==
    /\ pc = "sleep" /\ LastGet.ok /\ txt_success /\ json_success
    /\ idx = 2 /\ set_codes[1] = set_codes[2]
    /\ \E i \in GetPositions : log[i].ok /\ log[i].body # LastGet.body

(***************************************************************************)
(* C8: the combined txt and json files are written after the loop exactly  *)
(* when the result mapping is not empty; the combined text holds one entry *)
(* for each key, the code with its stored payload as it is; with an empty  *)
(* mapping no combined file is written and the metadata file still is.     *)
(***************************************************************************)
RECURSIVE SumOver(_, _)
SumOver(S, f) ==
    IF S = {} THEN 0
    ELSE LET x == CHOOSE y \in S : TRUE IN f[x] + SumOver(S \ {x}, f)

EntryOf(c) == <<"  \"">> \o c \o <<"\": ">> \o all_sets_data[c]
LastSleep == CHOOSE i \in SleepPositions : \A j \in SleepPositions : j <= i
WritesOf(filename) == {i \in WritePositions : log[i].arg = filename}

C8_CombinedIffStored ==
    pc = "done" /\ LoopFinished =>
        LET keys == DOMAIN all_sets_data
            sizes == [c \in keys |-> Len(EntryOf(c))]
        IN  /\ \A f \in {combined_txt_filename, combined_json_filename} :
                 /\ Cardinality(WritesOf(f)) = (IF keys # {} THEN 1 ELSE 0)
                 /\ \A i \in WritesOf(f) :
                      /\ i > LastSleep
                      /\ log[i].body = combined_json
                      /\ log[i].ok => files[f] = Saved(combined_json)
            /\ keys # {} =>
                 /\ Head(combined_json) = "{\n" /\ Last(combined_json) = "\n}"
                 /\ Occurrences(<<"  \"">>, combined_json) = Cardinality(keys)
                 /\ \A c \in keys : Occurrences(EntryOf(c), combined_json) = 1
                 /\ Len(combined_json) = 2 + SumOver(keys, sizes) + (Cardinality(keys) - 1)
            /\ Cardinality(WritesOf(metadata_filename)) = 1
            /\ \A i \in WritesOf(metadata_filename) : i = Len(log)

C8_Witness ==
    /\ pc = "done"
    /\ Cardinality(DOMAIN all_sets_data) = 2
    /\ \E c, d \in DOMAIN all_sets_data : all_sets_data[c] # all_sets_data[d]
    /\ \A f \in {combined_txt_filename, combined_json_filename} :
         f \in DOMAIN files /\ files[f].complete

(***************************************************************************)
(* C9: for a non-empty input list the process makes one GET for each code  *)
(* listed, in the order of the file; a fetch and its writes are over       *)
(* before the next fetch; one delay follows each code whatever failed; no  *)
(* failure stops the fetch of a later code; the combined and metadata      *)
(* writes come after the last delay.                                       *)
(***************************************************************************)
Gets == SelectSeq(log, LAMBDA e : e.op = "GET")
FinalFiles == {combined_txt_filename, combined_json_filename, metadata_filename}

\* log[i], if the log is that long, is the write of data to filename.
IsWrite(i, filename, data) ==
    i <= Len(log) =>
        log[i].op = "WRITE" /\ log[i].arg = filename /\ log[i].body = data
IsSleep(i) == i <= Len(log) => log[i].op = "SLEEP"

\* From log[i] on the log is, as far as it goes, what the iterations for the
\* codes from set_codes[k] on allow, one after the other: the GET, the two
\* writes of its body if it gave one, the delay; and after the last delay
\* nothing but writes of the combined and metadata files.
RECURSIVE LogFrom(_, _)
LogFrom(i, k) ==
    IF i > Len(log) THEN TRUE
    ELSE IF k > Len(set_codes)
    THEN \A j \in i..Len(log) : log[j].op = "WRITE" /\ log[j].arg \in FinalFiles
    ELSE /\ log[i].op = "GET"
         /\ log[i].arg = BASE_API_URL \o set_codes[k]
         /\ IF log[i].ok
            THEN /\ IsWrite(i + 1, txt_filename(set_codes[k]), log[i].body)
                 /\ IsWrite(i + 2, json_filename(set_codes[k]), log[i].body)
                 /\ IsSleep(i + 3)
                 /\ LogFrom(i + 4, k + 1)
            ELSE /\ IsSleep(i + 1)
                 /\ LogFrom(i + 2, k + 1)

LogInOrder == LogFrom(1, 1)

LogComplete ==
    /\ Len(Gets) = Len(set_codes)
    /\ Cardinality(SleepPositions) = Len(set_codes)
    /\ Last(log).op = "WRITE" /\ Last(log).arg = metadata_filename

C9_OneGetPerCodeInOrder ==
    /\ LogInOrder
    /\ pc = "done" /\ set_codes # <<>> => LogComplete

\* C9, amended: the same, for a non-empty input list whose output directories
\* exist or are created; when a missing directory cannot be created the
\* process ends before the first GET.
C9_OneGetPerCodeOnceDirsExist ==
    /\ LogInOrder
    /\ pc = "done" /\ set_codes # <<>> =>
         IF AllDirs \subseteq dirs THEN LogComplete ELSE log = <<>>

C9_Witness ==
    /\ pc = "done" /\ Len(set_codes) = 2 /\ Len(Gets) = 2
    /\ ~Gets[1].ok /\ Gets[2].ok
    /\ \E i \in WritePositions : ~log[i].ok /\ log[i].arg \notin FinalFiles
    /\ Cardinality(SleepPositions) = 2

(***************************************************************************)
(* C10: a code listed more than once has one entry in the result mapping,  *)
(* the body of the last iteration for it that fetched a body and saved it  *)
(* to at least one file; a later iteration for it that fails to fetch or   *)
(* to save leaves that entry.                                              *)
(***************************************************************************)
SavedIterations(c) == {i \in GetPositions : SavedIteration(i, c)}

C10_LastSavedBodyWins ==
    pc \in {"fetch", "sleep", "combine"} =>
        \A c \in DOMAIN all_sets_data :
            LET saved == SavedIterations(c)
            IN  /\ saved # {}
                /\ \E i \in saved :
                     /\ \A j \in saved : j <= i
                     /\ all_sets_data[c] = log[i].body

C10_Witness ==
    /\ pc = "combine"
    /\ Len(set_codes) = 2 /\ set_codes[1] = set_codes[2]
    /\ Cardinality(SavedIterations(set_codes[1])) = 2
    /\ Gets[1].body # Gets[2].body
    /\ all_sets_data[set_codes[1]] = Gets[2].body

====
